---------------------------- MODULE Spec2Model ----------------------------
(***************************************************************************)
(* A model of generator.js, the DDL -> JPA entity / DTO boilerplate        *)
(* generator: the configuration loader, the identifier transformers        *)
(* (toCamelCase, toPascalCase), the type mapper (mapOracleType), the DDL   *)
(* parser (parseDDL), the two renderers and the interactive run (runCLI).  *)
(*                                                                         *)
(* JavaScript strings are TLA+ strings; the string primitives the program  *)
(* uses (charAt, slice, split, trim, includes, startsWith, repeat,         *)
(* toUpperCase, toLowerCase, parseInt) and its three regular expressions   *)
(* are operators computed character by character.                          *)
(***************************************************************************)
EXTENDS Integers, Sequences, FiniteSets, TLC

VARIABLES
    config,       \* the process-wide `config` object (generator.js:163)
    pc,           \* position of the run / of the function under call
    arg,          \* arguments of the function under call
    ret,          \* its return value
    configFile,   \* what config.json holds on disk
    answers,      \* the answers of inquirer.prompt
    fsys,         \* the file system: input readability and files written
    results,      \* runCLI's `results` array
    clipboard,    \* content handed to the clipboard
    stdout,       \* artifacts printed to standard output
    console,      \* console.warn / console.error calls, in order
    exitCode      \* process exit status ("running" until the run ends)

vars == <<config, pc, arg, ret, configFile, answers, fsys, results,
          clipboard, stdout, console, exitCode>>

-----------------------------------------------------------------------------
(* Bounds of the model *)

MaxSegs == 3
MaxCols == 2
MaxPrecision == 12
MaxScale == 3

-----------------------------------------------------------------------------
(* JavaScript string primitives *)

UpperLetters == "ABCDEFGHIJKLMNOPQRSTUVWXYZ"
LowerLetters == "abcdefghijklmnopqrstuvwxyz"
Digits == "0123456789"

Min(S) == CHOOSE x \in S : \A y \in S : x <= y

CharsOf(s) == {SubSeq(s, i, i) : i \in 1..Len(s)}

UpperSet == CharsOf(UpperLetters)
LowerSet == CharsOf(LowerLetters)
DigitSet == CharsOf(Digits)

PosIn(c, s) == CHOOSE i \in 1..Len(s) : SubSeq(s, i, i) = c

LowerOf == [c \in UpperSet |-> SubSeq(LowerLetters, PosIn(c, UpperLetters), PosIn(c, UpperLetters))]
UpperOf == [c \in LowerSet |-> SubSeq(UpperLetters, PosIn(c, LowerLetters), PosIn(c, LowerLetters))]
DigitVal == [c \in DigitSet |-> PosIn(c, Digits) - 1]

\* String.prototype.charAt(i), i counted from 0; "" outside the string
charAt(s, i) == IF i >= 0 /\ i < Len(s) THEN SubSeq(s, i + 1, i + 1) ELSE ""

\* String.prototype.slice(i) for i >= 0
slice(s, i) == IF i < Len(s) THEN SubSeq(s, i + 1, Len(s)) ELSE ""

\* String.prototype.substring(i, j), 0 <= i <= j <= length
substring(s, i, j) == IF i < j THEN SubSeq(s, i + 1, j) ELSE ""

upperChar(c) == IF c \in LowerSet THEN UpperOf[c] ELSE c
lowerChar(c) == IF c \in UpperSet THEN LowerOf[c] ELSE c

\* toUpperCase / toLowerCase convert character by character (computed by
\* halves, which keeps the evaluation shallow on long texts)
RECURSIVE toUpperCase(_)
toUpperCase(s) ==
    IF Len(s) <= 1 THEN upperChar(s)
    ELSE toUpperCase(substring(s, 0, Len(s) \div 2)) \o toUpperCase(slice(s, Len(s) \div 2))

RECURSIVE toLowerCase(_)
toLowerCase(s) ==
    IF Len(s) <= 1 THEN lowerChar(s)
    ELSE toLowerCase(substring(s, 0, Len(s) \div 2)) \o toLowerCase(slice(s, Len(s) \div 2))

startsWithAt(s, p, i) ==
    /\ i + Len(p) <= Len(s)
    /\ substring(s, i, i + Len(p)) = p

startsWith(s, p) == startsWithAt(s, p, 0)

includes(s, t) == \E i \in 0..Len(s) : startsWithAt(s, t, i)

\* indexOf(t) counted from 0, -1 when absent
indexOf(s, t) ==
    LET at == {i \in 0..Len(s) : startsWithAt(s, t, i)}
    IN  IF at = {} THEN -1 ELSE Min(at)

\* String.prototype.split(sep) for a one-character separator
RECURSIVE split(_, _)
split(s, sep) ==
    LET k == indexOf(s, sep)
    IN  IF k = -1 THEN <<s>>
        ELSE <<substring(s, 0, k)>> \o split(slice(s, k + 1), sep)

\* Array.prototype.join(sep)
RECURSIVE join(_, _)
join(parts, sep) ==
    IF Len(parts) = 0 THEN ""
    ELSE IF Len(parts) = 1 THEN parts[1]
    ELSE parts[1] \o sep \o join(Tail(parts), sep)

\* String.prototype.repeat(n)
RECURSIVE repeat(_, _)
repeat(s, n) ==
    IF n <= 0 THEN ""
    ELSE IF n = 1 THEN s
    ELSE LET half == repeat(s, n \div 2)
         IN  half \o half \o (IF n % 2 = 1 THEN s ELSE "")

isSpace(c) == c \in {" ", "\t", "\n", "\r"}
isDigit(c) == c \in DigitSet
isWord(c) == c \in UpperSet \cup LowerSet \cup DigitSet \cup {"_"}

RECURSIVE trimStart(_)
trimStart(s) == IF s # "" /\ isSpace(charAt(s, 0)) THEN trimStart(slice(s, 1)) ELSE s

RECURSIVE trimEnd(_)
trimEnd(s) ==
    IF s # "" /\ isSpace(charAt(s, Len(s) - 1))
    THEN trimEnd(substring(s, 0, Len(s) - 1)) ELSE s

trim(s) == trimEnd(trimStart(s))

\* parseInt of a string of decimal digits
RECURSIVE parseDigits(_, _)
parseDigits(s, acc) ==
    IF s = "" THEN acc
    ELSE parseDigits(slice(s, 1), 10 * acc + DigitVal[charAt(s, 0)])

\* Array.prototype.includes
arrIncludes(a, x) == \E i \in 1..Len(a) : a[i] = x

-----------------------------------------------------------------------------
(* Configuration (generator.js:163-217) *)

\* the object literal {} : every property of it is undefined
EmptyObject == [k \in {} |-> TRUE]

\* the value null: reading a property of it throws a TypeError
JsNull == [jsnull |-> TRUE]

\* a JSON value that is neither null nor an object with the expected keys
\* (a number, a string, a boolean, an array): every property read of it
\* gives undefined
JsPrimitive == [jsprimitive |-> TRUE]

Has(o, k) == k \in DOMAIN o

getDefaultConfig ==
    [naming |->
        [prefixes |-> <<"nr", "cd", "ds", "dt", "fl", "vl", "nm", "tp", "chm", "pes">>,
         tablePrefixes |-> <<"tb">>,
         removeThreeLetterPrefixes |-> TRUE],
     typeMapping |->
        [NUMBER |-> [default |-> "Integer", large |-> "Long",
                     decimal |-> "BigDecimal", largeThreshold |-> 9],
         STRING |-> [types |-> <<"CHAR", "VARCHAR2", "TEXT">>, default |-> "String"],
         DATE |-> [types |-> <<"DATE", "TIMESTAMP">>, default |-> "LocalDateTime"]],
     validation |->
        [generateAnnotations |-> TRUE,
         stringValidation |-> "@NotBlank",
         otherValidation |-> "@NotNull",
         generateSchema |-> TRUE],
     output |->
        [directory |-> "generated",
         fileExtensions |-> [entity |-> ".java", dto |-> "DTO.java"],
         indentation |-> "    "]]

\* `config.<section> || {}` ; throws when config is null
section(name) == IF Has(config, name) THEN config[name] ELSE EmptyObject

\* a property read `config.<section>` of the null value throws
derefThrows == config = JsNull

-----------------------------------------------------------------------------
(* Identifier transformer (generator.js:219-252) *)

capitalize(word) == toUpperCase(charAt(word, 0)) \o slice(word, 1)

\* the first version of toCamelCase (generator.js:6-13): no glued-prefix rule
toCamelCaseV1(str) ==
    LET parts0 == split(toLowerCase(str), "_")
        parts == IF Len(parts0[1]) = 3 THEN Tail(parts0) ELSE parts0
    IN  join([i \in 1..Len(parts) |->
                IF i = 1 THEN parts[i] ELSE capitalize(parts[i])], "")

toCamelCase(str) ==
    LET namingConfig == section("naming")
        prefixes == IF Has(namingConfig, "prefixes") THEN namingConfig.prefixes
                    ELSE <<"nr", "cd", "ds", "dt", "fl", "vl", "nm", "tp">>
        strip == Has(namingConfig, "removeThreeLetterPrefixes")
                    /\ namingConfig.removeThreeLetterPrefixes
        parts0 == split(toLowerCase(str), "_")
        parts == IF strip /\ Len(parts0[1]) = 3 THEN Tail(parts0) ELSE parts0
        first(word) ==
            LET hits == {k \in 1..Len(prefixes) :
                            /\ startsWith(word, prefixes[k])
                            /\ Len(word) > Len(prefixes[k])}
            IN  IF hits = {} THEN word
                ELSE LET p == prefixes[Min(hits)]
                     IN  p \o toUpperCase(charAt(word, Len(p))) \o slice(word, Len(p) + 1)
    IN  join([i \in 1..Len(parts) |->
                IF i = 1 THEN first(parts[i]) ELSE capitalize(parts[i])], "")

\* a variant that filters the table-prefix token out of every position
toPascalCaseFilterAll(str) ==
    LET namingConfig == section("naming")
        tablePrefixes == IF Has(namingConfig, "tablePrefixes") THEN namingConfig.tablePrefixes
                         ELSE <<"tb">>
        strip == Has(namingConfig, "removeThreeLetterPrefixes")
                    /\ namingConfig.removeThreeLetterPrefixes
        parts0 == SelectSeq(split(toLowerCase(str), "_"),
                            LAMBDA w : ~arrIncludes(tablePrefixes, w))
        parts == IF strip /\ Len(parts0) > 0 /\ Len(parts0[1]) = 3
                 THEN Tail(parts0) ELSE parts0
    IN  join([i \in 1..Len(parts) |-> capitalize(parts[i])], "")

toPascalCase(str) ==
    LET namingConfig == section("naming")
        tablePrefixes == IF Has(namingConfig, "tablePrefixes") THEN namingConfig.tablePrefixes
                         ELSE <<"tb">>
        strip == Has(namingConfig, "removeThreeLetterPrefixes")
                    /\ namingConfig.removeThreeLetterPrefixes
        parts0 == split(toLowerCase(str), "_")
        parts1 == IF arrIncludes(tablePrefixes, parts0[1]) THEN Tail(parts0) ELSE parts0
        parts == IF strip /\ Len(parts1) > 0 /\ Len(parts1[1]) = 3
                 THEN Tail(parts1) ELSE parts1
    IN  join([i \in 1..Len(parts) |-> capitalize(parts[i])], "")

-----------------------------------------------------------------------------
(* Type mapper (generator.js:254-296) *)

\* `o.k || d` for a string, a number and an array property: an absent
\* property, the empty string and the number 0 are falsy
strOr(o, k, d) == IF Has(o, k) /\ o[k] # "" THEN o[k] ELSE d
numOr(o, k, d) == IF Has(o, k) /\ o[k] # 0 THEN o[k] ELSE d
arrOr(o, k, d) == IF Has(o, k) THEN o[k] ELSE d
flag(o, k) == Has(o, k) /\ o[k]

\* `typeConfig.K?.` : the sub-object, or one without properties
optional(o, k) == IF Has(o, k) THEN o[k] ELSE EmptyObject

RECURSIVE natToString(_)
natToString(n) ==
    IF n < 10 THEN SubSeq(Digits, n + 1, n + 1)
    ELSE natToString(n \div 10) \o SubSeq(Digits, (n % 10) + 1, (n % 10) + 1)

\* a number inside a template literal
numToString(n) == IF n < 0 THEN "-" \o natToString(-n) ELSE natToString(n)

\* parseInt(x || 0) for x a regex capture: a string of digits, or undefined
\* (written "")
parseInt(x) == IF x # "" THEN parseDigits(x, 0) ELSE 0

someIncluded(type, tokens) == \E k \in 1..Len(tokens) : includes(type, tokens[k])

\* the second version of the mapper (src/unnamed/part_001:36-50): hard-coded
\* tokens, DATE the only date token
mapOracleTypeV2(type, precision, scale) ==
    LET t == IF type # "" THEN toUpperCase(type) ELSE ""
        p == parseInt(precision)
        sc == parseInt(scale)
    IN  IF includes(t, "NUMBER")
        THEN IF sc > 0
             THEN [java |-> "BigDecimal",
                   annotation |-> "@Digits(integer = " \o numToString(p - sc)
                                    \o ", fraction = " \o numToString(sc) \o ")"]
             ELSE IF p > 9
             THEN [java |-> "Long",
                   annotation |-> "@Min(0) @Max(" \o repeat("9", p) \o "L)"]
             ELSE [java |-> "Integer",
                   annotation |-> "@Min(0) @Max(" \o repeat("9", p) \o ")"]
        ELSE IF includes(t, "CHAR") \/ includes(t, "VARCHAR2") \/ includes(t, "TEXT")
        THEN [java |-> "String", annotation |-> "@Size(max = " \o numToString(p) \o ")"]
        ELSE IF includes(t, "DATE")
        THEN [java |-> "LocalDateTime", annotation |-> ""]
        ELSE [java |-> "String", annotation |-> ""]

mapOracleType(type, precision, scale) ==
    LET typeConfig == section("typeMapping")
        validationConfig == section("validation")
        t == IF type # "" THEN toUpperCase(type) ELSE ""
        p == parseInt(precision)
        sc == parseInt(scale)
        gen == flag(validationConfig, "generateAnnotations")
        number == optional(typeConfig, "NUMBER")
        threshold == numOr(number, "largeThreshold", 9)
        stringTypes == arrOr(optional(typeConfig, "STRING"), "types",
                             <<"CHAR", "VARCHAR2", "TEXT">>)
        dateTypes == arrOr(optional(typeConfig, "DATE"), "types", <<"DATE">>)
    IN  IF includes(t, "NUMBER")
        THEN IF sc > 0
             THEN [java |-> strOr(number, "decimal", "BigDecimal"),
                   annotation |->
                        IF gen THEN "@Digits(integer = " \o numToString(p - sc)
                                        \o ", fraction = " \o numToString(sc) \o ")"
                        ELSE ""]
             ELSE IF p > threshold
             THEN [java |-> strOr(number, "large", "Long"),
                   annotation |->
                        IF gen THEN "@Min(0) @Max(" \o repeat("9", p) \o "L)" ELSE ""]
             ELSE [java |-> strOr(number, "default", "Integer"),
                   annotation |->
                        IF gen THEN "@Min(0) @Max(" \o repeat("9", p) \o ")" ELSE ""]
        ELSE IF someIncluded(t, stringTypes)
        THEN [java |-> strOr(optional(typeConfig, "STRING"), "default", "String"),
              annotation |-> IF gen THEN "@Size(max = " \o numToString(p) \o ")" ELSE ""]
        ELSE IF someIncluded(t, dateTypes)
        THEN [java |-> strOr(optional(typeConfig, "DATE"), "default", "LocalDateTime"),
              annotation |-> ""]
        ELSE [java |-> "String", annotation |-> ""]

-----------------------------------------------------------------------------
(* DDL parser (generator.js:298-347) *)

\* the length of the longest run of \w, \d, \s and [^)] characters at index i
RECURSIVE wordRun(_, _)
wordRun(s, i) == IF isWord(charAt(s, i)) THEN 1 + wordRun(s, i + 1) ELSE 0

RECURSIVE digitRun(_, _)
digitRun(s, i) == IF isDigit(charAt(s, i)) THEN 1 + digitRun(s, i + 1) ELSE 0

RECURSIVE spaceRun(_, _)
spaceRun(s, i) == IF isSpace(charAt(s, i)) THEN 1 + spaceRun(s, i + 1) ELSE 0

notParenRun(s, i) ==
    IF i >= Len(s) THEN 0
    ELSE Min({k \in i..Len(s) : k = Len(s) \/ charAt(s, k) = ")"}) - i

NoMatch == [found |-> FALSE]

\* the positions where a (lower-case) keyword occurs in the text, letter case
\* ignored (the i flag)
keywordAt(text, keyword) ==
    {i \in 0..(Len(text) - Len(keyword)) :
        /\ lowerChar(charAt(text, i)) = charAt(keyword, 0)
        /\ toLowerCase(substring(text, i, i + Len(keyword))) = keyword}

\* the same search without the i flag: only the upper-case keyword matches
matchQualifiedTableCaseSensitive(ddl) ==
    LET kw == "CREATE TABLE "
        ok(i) == LET j == i + Len(kw)
                     n == wordRun(ddl, j)
                 IN  /\ startsWithAt(ddl, kw, i)
                     /\ n > 0 /\ charAt(ddl, j + n) = "." /\ wordRun(ddl, j + n + 1) > 0
        hits == {i \in 0..Len(ddl) : ok(i)}
    IN  IF hits = {} THEN NoMatch
        ELSE LET j == Min(hits) + Len(kw)
                 n == wordRun(ddl, j)
                 m == wordRun(ddl, j + n + 1)
             IN  [found |-> TRUE, length |-> 3,
                  g1 |-> substring(ddl, j, j + n),
                  g2 |-> substring(ddl, j + n + 1, j + n + 1 + m)]

\* ddl.match(/CREATE TABLE (\w+)\.(\w+)/i): the leftmost match
matchQualifiedTable(ddl) ==
    LET kw == "create table "
        ok(i) == LET j == i + Len(kw)
                     n == wordRun(ddl, j)
                 IN  n > 0 /\ charAt(ddl, j + n) = "." /\ wordRun(ddl, j + n + 1) > 0
        hits == {i \in keywordAt(ddl, kw) : ok(i)}
    IN  IF hits = {} THEN NoMatch
        ELSE LET j == Min(hits) + Len(kw)
                 n == wordRun(ddl, j)
                 m == wordRun(ddl, j + n + 1)
             IN  [found |-> TRUE, length |-> 3,
                  g1 |-> substring(ddl, j, j + n),
                  g2 |-> substring(ddl, j + n + 1, j + n + 1 + m)]

\* ddl.match(/CREATE TABLE (\w+)/i): the leftmost match
matchSimpleTable(ddl) ==
    LET kw == "create table "
        hits == {i \in keywordAt(ddl, kw) : wordRun(ddl, i + Len(kw)) > 0}
    IN  IF hits = {} THEN NoMatch
        ELSE LET j == Min(hits) + Len(kw)
             IN  [found |-> TRUE, length |-> 2,
                  g1 |-> substring(ddl, j, j + wordRun(ddl, j))]

\* ddl.match(/PRIMARY KEY \(([^)]+)\)/i): the leftmost match
matchPrimaryKey(ddl) ==
    LET kw == "primary key ("
        ok(i) == LET j == i + Len(kw)
                     n == notParenRun(ddl, j)
                 IN  n > 0 /\ charAt(ddl, j + n) = ")"
        hits == {i \in keywordAt(ddl, kw) : ok(i)}
    IN  IF hits = {} THEN NoMatch
        ELSE LET j == Min(hits) + Len(kw)
             IN  [found |-> TRUE, g1 |-> substring(ddl, j, j + notParenRun(ddl, j))]

\* trimmed.match(/^(\w+)\s+(\w+)(?:\((\d+)(?:,(\d+))?\))?/) ; an unmatched
\* optional group is undefined, written ""
matchColumn(trimmed) ==
    LET w1 == wordRun(trimmed, 0)
        sp == spaceRun(trimmed, w1)
        a == w1 + sp
        w2 == wordRun(trimmed, a)
        b == a + w2
        d1 == digitRun(trimmed, b + 1)
        c == b + 1 + d1
        d2 == digitRun(trimmed, c + 1)
        withScale == charAt(trimmed, c) = "," /\ d2 > 0 /\ charAt(trimmed, c + 1 + d2) = ")"
        withoutScale == charAt(trimmed, c) = ")"
        group == charAt(trimmed, b) = "(" /\ d1 > 0 /\ (withScale \/ withoutScale)
    IN  IF w1 > 0 /\ sp > 0 /\ w2 > 0
        THEN [found |-> TRUE,
              colName |-> substring(trimmed, 0, w1),
              colType |-> substring(trimmed, a, b),
              precision |-> IF group THEN substring(trimmed, b + 1, c) ELSE "",
              scale |-> IF group /\ withScale THEN substring(trimmed, c + 1, c + 1 + d2) ELSE ""]
        ELSE NoMatch

\* the lines that pass the filter of generator.js:325
isColumnLine(trimmed) ==
    /\ matchColumn(trimmed).found
    /\ ~startsWith(trimmed, "CONSTRAINT")
    /\ ~startsWith(trimmed, "CREATE")
    /\ ~startsWith(trimmed, "KEY")
    /\ ~startsWith(trimmed, ")")

\* the Column pushed for one matching line
column(colMatch, pks) ==
    LET typeInfo == mapOracleType(colMatch.colType, colMatch.precision, colMatch.scale)
    IN  [originalName |-> colMatch.colName,
         javaName |-> toCamelCase(colMatch.colName),
         pascalName |-> toUpperCase(charAt(toCamelCase(colMatch.colName), 0))
                            \o slice(toCamelCase(colMatch.colName), 1),
         javaType |-> typeInfo.java,
         annotation |-> typeInfo.annotation,
         isId |-> arrIncludes(pks, colMatch.colName)]

\* a variant that keeps the identifiers as split, blanks included
primaryKeysUntrimmed(ddl) ==
    LET pkMatch == matchPrimaryKey(ddl)
    IN  IF pkMatch.found THEN split(pkMatch.g1, ",") ELSE <<>>

\* pkMatch[1].split(',') with every element trimmed
primaryKeys(ddl) ==
    LET pkMatch == matchPrimaryKey(ddl)
    IN  IF pkMatch.found
        THEN LET raw == split(pkMatch.g1, ",")
             IN  [i \in 1..Len(raw) |-> trim(raw[i])]
        ELSE <<>>

parseDDL(ddl) ==
    LET lines == split(ddl, "\n")
        qualified == matchQualifiedTable(ddl)
        createTableMatch == IF qualified.found THEN qualified ELSE matchSimpleTable(ddl)
        schema == IF createTableMatch.found /\ createTableMatch.length = 3
                  THEN createTableMatch.g1 ELSE "dbo"
        tableName == IF ~createTableMatch.found THEN "Unknown"
                     ELSE IF createTableMatch.length = 3 THEN createTableMatch.g2
                     ELSE createTableMatch.g1
        pks == primaryKeys(ddl)
        trimmedLines == [i \in 1..Len(lines) |-> trim(lines[i])]
        matching == SelectSeq(trimmedLines, isColumnLine)
    IN  [schema |-> schema,
         originalTableName |-> tableName,
         className |-> toPascalCase(tableName),
         columns |-> [i \in 1..Len(matching) |-> column(matchColumn(matching[i]), pks)]]

-----------------------------------------------------------------------------
(* Template renderers (generator.js:349-412) *)

indentation == strOr(section("output"), "indentation", "    ")

countIds(columns) == Cardinality({i \in 1..Len(columns) : columns[i].isId})

\* a variant that emits the composite-key marker as soon as one column is a key
generateEntityAnyKey(data) ==
    LET indent == indentation
        pkClass == IF countIds(data.columns) > 0
                   THEN "@IdClass(" \o data.className \o "Id.class)" ELSE ""
        field(col) ==
            (IF col.isId THEN indent \o "@Id\n" ELSE "")
                \o indent \o "@Column(name = \"" \o col.originalName \o "\")\n"
                \o indent \o "private " \o col.javaType \o " " \o col.javaName \o ";"
    IN  "/** JAVA ENTITY **/\n\n@Data\n@Entity\n"
            \o "@Table(schema = \"" \o data.schema \o "\", name = \""
            \o data.originalTableName \o "\")\n"
            \o pkClass \o "\n"
            \o "public class " \o data.className \o " implements Serializable {\n\n"
            \o indent \o "@Serial\n"
            \o indent \o "private static final long serialVersionUID = 1L;\n\n"
            \o join([i \in 1..Len(data.columns) |-> field(data.columns[i])], "\n\n")
            \o "\n}"

generateEntity(data) ==
    LET indent == indentation
        pkClass == IF countIds(data.columns) > 1
                   THEN "@IdClass(" \o data.className \o "Id.class)" ELSE ""
        field(col) ==
            (IF col.isId THEN indent \o "@Id\n" ELSE "")
                \o indent \o "@Column(name = \"" \o col.originalName \o "\")\n"
                \o indent \o "private " \o col.javaType \o " " \o col.javaName \o ";"
    IN  "/** JAVA ENTITY **/\n\n@Data\n@Entity\n"
            \o "@Table(schema = \"" \o data.schema \o "\", name = \""
            \o data.originalTableName \o "\")\n"
            \o pkClass \o "\n"
            \o "public class " \o data.className \o " implements Serializable {\n\n"
            \o indent \o "@Serial\n"
            \o indent \o "private static final long serialVersionUID = 1L;\n\n"
            \o join([i \in 1..Len(data.columns) |-> field(data.columns[i])], "\n\n")
            \o "\n}"

generateDTO(data) ==
    LET validationConfig == section("validation")
        indent == indentation
        interfacesList == join([i \in 1..Len(data.columns) |-> data.columns[i].pascalName], ", ")
        contract(col) ==
            LET notBlank == IF col.javaType = "String"
                            THEN strOr(validationConfig, "stringValidation", "@NotBlank")
                            ELSE strOr(validationConfig, "otherValidation", "@NotNull")
                schemaAnnotation == IF flag(validationConfig, "generateSchema")
                                    THEN "@Schema(description = \" \", example = \" \")"
                                    ELSE ""
            IN  indent \o "protected interface " \o col.pascalName \o " {\n"
                    \o indent \o notBlank \o "\n"
                    \o indent \o col.annotation \o "\n"
                    \o indent \o schemaAnnotation \o "\n"
                    \o indent \o col.javaType \o " get" \o col.pascalName \o "();\n"
                    \o indent \o "}"
        member(col) ==
            indent \o indent \o indent \o "private " \o col.javaType \o " " \o col.javaName \o ";"
    IN  "/** JAVA DTO **/\n\npublic enum " \o data.className \o "DTO {;\n\n"
            \o join([i \in 1..Len(data.columns) |-> contract(data.columns[i])], "\n\n")
            \o "\n\n"
            \o indent \o "public enum Request {;\n"
            \o indent \o indent \o "@Data\n"
            \o indent \o indent \o "@EqualsAndHashCode(callSuper = true)\n"
            \o indent \o indent \o "public static class Base implements "
                \o interfacesList \o " {\n"
            \o join([i \in 1..Len(data.columns) |-> member(data.columns[i])], "\n")
            \o "\n"
            \o indent \o indent \o "}\n"
            \o "        \n"
            \o indent \o indent \o "@Data\n"
            \o indent \o indent \o "@EqualsAndHashCode(callSuper = true)\n"
            \o indent \o indent \o "public static class Cadastro extends Base {}\n"
            \o indent \o "}\n\n"
            \o indent \o "public enum Response {;\n"
            \o indent \o indent \o "public interface Buscar extends " \o interfacesList \o " {}\n"
            \o indent \o "}\n"
            \o "}"

-----------------------------------------------------------------------------
(* Output files (generator.js:414-429) *)

outputDirectory == strOr(section("output"), "directory", "generated")

\* path.join(dir, filename)
pathJoin(dir, filename) == dir \o "/" \o filename

\* saveFile for every result, after ensureOutputDir
savedFiles(rs) ==
    {[path |-> pathJoin(outputDirectory, rs[i].filename), content |-> rs[i].code] :
        i \in 1..Len(rs)}

-----------------------------------------------------------------------------
(* The interactive run (generator.js:431-539) *)

\* loadConfig: the parsed file when it exists and is JSON, the built-in
\* default (with a warning when the file could not be parsed) otherwise
LoadConfig ==
    /\ pc = "start"
    /\ IF configFile.exists
       THEN IF configFile.json
            THEN /\ config' = configFile.value
                 /\ UNCHANGED console
            ELSE /\ config' = getDefaultConfig
                 /\ console' = Append(console, [level |-> "warn", about |-> "config"])
       ELSE /\ config' = getDefaultConfig
            /\ UNCHANGED console
    /\ pc' = "prompt"
    /\ UNCHANGED <<arg, ret, configFile, answers, fsys, results, clipboard, stdout, exitCode>>

\* inquirer.prompt: the input file (which exists), the outputs ticked, and
\* the two confirmations
Prompt ==
    /\ pc = "prompt"
    /\ \E outputs \in SUBSET {"entity", "dto"}, saveFiles \in BOOLEAN, copy \in BOOLEAN :
          answers' = [inputFile |-> "ddl.txt", outputs |-> outputs,
                      saveFiles |-> saveFiles, copyToClipboard |-> copy]
    /\ pc' = "read"
    /\ UNCHANGED <<config, arg, ret, configFile, fsys, results, clipboard, stdout,
                   console, exitCode>>

\* the catch block of runCLI: report and process.exit(1)
fail(about) ==
    /\ console' = Append(console, [level |-> "error", about |-> about])
    /\ exitCode' = 1
    /\ pc' = "done"

\* fs.readFileSync(answers.inputFile)
ReadInput ==
    /\ pc = "read"
    /\ IF fsys.inputReadable
       THEN /\ arg' = [fn |-> "parseDDL", ddl |-> fsys.inputContent]
            /\ pc' = "parse"
            /\ UNCHANGED <<console, exitCode>>
       ELSE /\ fail("read")
            /\ UNCHANGED arg
    /\ UNCHANGED <<config, ret, configFile, answers, fsys, results, clipboard, stdout>>

\* parseDDL(ddlContent): reading a section of a null config throws
Parse ==
    /\ pc = "parse"
    /\ IF derefThrows
       THEN /\ fail("parse")
            /\ UNCHANGED ret
       ELSE /\ ret' = parseDDL(arg.ddl)
            /\ pc' = "generate"
            /\ UNCHANGED <<console, exitCode>>
    /\ UNCHANGED <<config, arg, configFile, answers, fsys, results, clipboard, stdout>>

entityResult(data) ==
    [type |-> "Entity", filename |-> data.className \o ".java", code |-> generateEntity(data)]

dtoResult(data) ==
    [type |-> "DTO", filename |-> data.className \o "DTO.java", code |-> generateDTO(data)]

\* the results array: what was ticked, both artifacts when nothing was
Generate ==
    /\ pc = "generate"
    /\ LET ticked == (IF "entity" \in answers.outputs THEN <<entityResult(ret)>> ELSE <<>>)
                        \o (IF "dto" \in answers.outputs THEN <<dtoResult(ret)>> ELSE <<>>)
       IN  results' = IF Len(ticked) = 0
                      THEN <<entityResult(ret), dtoResult(ret)>> ELSE ticked
    /\ pc' = "save"
    /\ UNCHANGED <<config, arg, ret, configFile, answers, fsys, clipboard, stdout,
                   console, exitCode>>

\* ensureOutputDir and saveFile for every result; a failing mkdirSync or
\* writeFileSync throws
SaveFiles ==
    /\ pc = "save"
    /\ IF answers.saveFiles
       THEN IF fsys.outputWritable
            THEN /\ fsys' = [fsys EXCEPT !.dirs = @ \cup {outputDirectory},
                                         !.files = @ \cup savedFiles(results)]
                 /\ pc' = "copy"
                 /\ UNCHANGED <<console, exitCode>>
            ELSE /\ fail("write")
                 /\ UNCHANGED fsys
       ELSE /\ pc' = "copy"
            /\ UNCHANGED <<fsys, console, exitCode>>
    /\ UNCHANGED <<config, arg, ret, configFile, answers, results, clipboard, stdout>>

combinedCode(rs) ==
    join([i \in 1..Len(rs) |-> "// " \o rs[i].type \o "\n" \o rs[i].code],
         "\n\n" \o repeat("=", 50) \o "\n\n")

\* clipboardy.default.write(combinedCode), not awaited: it succeeds, throws
\* at the call, or returns a promise that rejects later
CopyToClipboard ==
    /\ pc = "copy"
    /\ IF answers.copyToClipboard /\ Len(results) > 0
       THEN \E outcome \in {"written", "threw", "rejected"} :
              /\ clipboard' = [outcome |-> outcome,
                               text |-> IF outcome = "written"
                                        THEN combinedCode(results) ELSE ""]
              /\ console' = IF outcome = "threw"
                            THEN Append(console, [level |-> "warn", about |-> "clipboard"])
                            ELSE console
       ELSE UNCHANGED <<clipboard, console>>
    /\ pc' = "print"
    /\ UNCHANGED <<config, arg, ret, configFile, answers, fsys, results, stdout, exitCode>>

\* the artifacts go to standard output when neither saved nor copied
PrintResults ==
    /\ pc = "print"
    /\ stdout' = IF ~answers.saveFiles /\ ~answers.copyToClipboard
                 THEN [i \in 1..Len(results) |-> results[i].code] ELSE stdout
    /\ pc' = "exit"
    /\ UNCHANGED <<config, arg, ret, configFile, answers, fsys, results, clipboard,
                   console, exitCode>>

\* runCLI returns and the process ends: status 0, or, when the clipboard
\* promise rejected with nobody handling it, whatever the runtime does with
\* an unhandled rejection (its own warning and status 0, or the error and
\* termination with status 1)
Exit ==
    /\ pc = "exit"
    /\ IF clipboard.outcome = "rejected"
       THEN \/ /\ exitCode' = 0
               /\ console' = Append(console, [level |-> "warn", about |-> "unhandled rejection"])
            \/ /\ exitCode' = 1
               /\ console' = Append(console, [level |-> "error", about |-> "unhandled rejection"])
       ELSE /\ exitCode' = 0
            /\ UNCHANGED console
    /\ pc' = "done"
    /\ UNCHANGED <<config, arg, ret, configFile, answers, fsys, results, clipboard, stdout>>

-----------------------------------------------------------------------------
(* Inputs of the identifier transformers: identifiers built from segments *)

Segments == {"TB", "dt", "abc", "CLIENTE", "cliente", "nrcliente",
             "ressarcimento", "", "chmod"}

SegSeqs == UNION {[1..n -> Segments] : n \in 1..MaxSegs}

\* the naming sections the transformers may run under: the built-in default,
\* no configuration at all (the module-level `let config = {}`), and a
\* customised one
NamingConfigs ==
    {getDefaultConfig,
     EmptyObject,
     [naming |-> [prefixes |-> <<"cli", "nr">>,
                  tablePrefixes |-> <<"tb", "abc">>,
                  removeThreeLetterPrefixes |-> FALSE]]}

Idle ==
    /\ configFile = [exists |-> FALSE]
    /\ answers = EmptyObject
    /\ fsys = EmptyObject
    /\ results = <<>>
    /\ clipboard = [outcome |-> "none", text |-> ""]
    /\ stdout = <<>>
    /\ console = <<>>
    /\ exitCode = "running"

UnchangedRun ==
    UNCHANGED <<configFile, answers, fsys, results, clipboard, stdout, console, exitCode>>

InitNaming ==
    /\ config \in NamingConfigs
    /\ pc = "call"
    /\ \E segs \in SegSeqs : arg = [fn |-> "none", segs |-> segs, str |-> join(segs, "_")]
    /\ ret = ""
    /\ Idle

CallToCamelCase ==
    /\ pc = "call"
    /\ arg.fn = "none"
    /\ ret' = toCamelCase(arg.str)
    /\ arg' = [arg EXCEPT !.fn = "toCamelCase"]
    /\ pc' = "done"
    /\ UNCHANGED config
    /\ UnchangedRun

CallToPascalCase ==
    /\ pc = "call"
    /\ arg.fn = "none"
    /\ ret' = toPascalCase(arg.str)
    /\ arg' = [arg EXCEPT !.fn = "toPascalCase"]
    /\ pc' = "done"
    /\ UNCHANGED config
    /\ UnchangedRun

NextNaming == CallToCamelCase \/ CallToPascalCase

SpecNaming == InitNaming /\ [][NextNaming]_vars

-----------------------------------------------------------------------------
(* Claims about the identifier transformers, checked under SpecNaming *)

lowerAll(segs) == [i \in 1..Len(segs) |-> toLowerCase(segs[i])]

RECURSIVE concatCapitalized(_)
concatCapitalized(segs) ==
    IF segs = <<>> THEN ""
    ELSE toUpperCase(charAt(Head(segs), 0)) \o slice(Head(segs), 1)
            \o concatCapitalized(Tail(segs))

\* capitalize the character after the first listed prefix the word starts
\* with and is strictly longer than
RECURSIVE splitGluedPrefix(_, _)
splitGluedPrefix(word, prefixes) ==
    IF prefixes = <<>> THEN word
    ELSE LET p == Head(prefixes)
         IN  IF Len(word) > Len(p) /\ SubSeq(word, 1, Len(p)) = p
             THEN p \o concatCapitalized(<<SubSeq(word, Len(p) + 1, Len(word))>>)
             ELSE splitGluedPrefix(word, Tail(prefixes))

\* the reference of C2, computed on the segments the identifier was built of
RefFieldName(segs) ==
    LET low == lowerAll(segs)
        rest == IF Len(low[1]) = 3 THEN Tail(low) ELSE low
    IN  IF rest = <<>> THEN ""
        ELSE splitGluedPrefix(Head(rest), getDefaultConfig.naming.prefixes)
                \o concatCapitalized(Tail(rest))

CalledCamel == pc = "done" /\ arg.fn = "toCamelCase"
CalledPascal == pc = "done" /\ arg.fn = "toPascalCase"

\* C2: under the default configuration toCamelCase equals the reference
\* (lower-case, split on "_", drop a first segment of exactly 3 characters,
\* split a glued prefix in the first remaining segment, capitalize the later
\* segments); dt_ressarcimento_cliente gives dtRessarcimentoCliente and
\* nrcliente gives nrCliente.
C2_CamelCaseReference ==
    (CalledCamel /\ config = getDefaultConfig) =>
        /\ ret = RefFieldName(arg.segs)
        /\ (arg.str = "dt_ressarcimento_cliente" => ret = "dtRessarcimentoCliente")
        /\ (arg.str = "nrcliente" => ret = "nrCliente")

C2_Witness ==
    /\ CalledCamel
    /\ config = getDefaultConfig
    /\ arg.str = "dt_ressarcimento_cliente"
    /\ ret = "dtRessarcimentoCliente"

configuredTablePrefixes ==
    IF Has(config, "naming") /\ Has(config.naming, "tablePrefixes")
    THEN config.naming.tablePrefixes ELSE <<"tb">>

stripThreeConfigured ==
    /\ Has(config, "naming")
    /\ Has(config.naming, "removeThreeLetterPrefixes")
    /\ config.naming.removeThreeLetterPrefixes

isTablePrefix(seg) == \E k \in 1..Len(configuredTablePrefixes) : configuredTablePrefixes[k] = seg

\* the type name when only a leading table prefix is removed
RefTypeNameLeading(segs) ==
    LET low == lowerAll(segs)
        a == IF isTablePrefix(low[1]) THEN Tail(low) ELSE low
        b == IF stripThreeConfigured /\ a # <<>> /\ Len(Head(a)) = 3 THEN Tail(a) ELSE a
    IN  concatCapitalized(b)

\* the type name when the table prefix is removed wherever it occurs
RefTypeNameEverywhere(segs) ==
    concatCapitalized(SelectSeq(lowerAll(segs), LAMBDA w : ~isTablePrefix(w)))

noThreeLetterSegment(segs) == \A i \in 1..Len(segs) : Len(segs[i]) # 3

\* C3 (as amended): toPascalCase removes the first segment when it equals a
\* configured table-prefix token, then, when three-letter stripping is on,
\* the segment that is then first if it has exactly 3 characters; a
\* table-prefix token at any later position is kept; every remaining segment
\* is capitalized and concatenated in order; TB_CLIENTE yields Cliente.
C3_PascalCaseLeadingPrefixOnly ==
    CalledPascal =>
        /\ ret = RefTypeNameLeading(arg.segs)
        /\ (arg.str = "TB_CLIENTE" => ret = "Cliente")

C3_Witness ==
    /\ CalledPascal
    /\ config = getDefaultConfig
    /\ arg.str = "CLIENTE_TB"
    /\ ret = "ClienteTb"

\* C3 (as claimed): every segment equal to a configured table-prefix token is
\* removed wherever it occurs and the remaining segments are capitalized and
\* concatenated (stated under the default configuration for identifiers
\* without a three-character segment, where three-letter stripping plays no
\* part).
C3_PascalCaseFiltersEverywhere ==
    (CalledPascal /\ config = getDefaultConfig /\ noThreeLetterSegment(arg.segs)) =>
        ret = RefTypeNameEverywhere(arg.segs)

\* C4: toPascalCase never returns an empty type name for an identifier that
\* has a non-empty segment (stated under the default configuration).
C4_PascalCaseNeverEmpty ==
    (/\ CalledPascal
     /\ config = getDefaultConfig
     /\ \E i \in 1..Len(arg.segs) : arg.segs[i] # "") => ret # ""

-----------------------------------------------------------------------------
(* Inputs of the type mapper. Each type name carries what it contains, set  *)
(* down by hand: a NUMBER token, a string-type token, a date-type token.   *)

TypeNames ==
    {[name |-> "NUMBER",      number |-> TRUE,  string |-> FALSE, date |-> FALSE],
     [name |-> "number",      number |-> TRUE,  string |-> FALSE, date |-> FALSE],
     [name |-> "VARCHAR2",    number |-> FALSE, string |-> TRUE,  date |-> FALSE],
     [name |-> "Varchar2",    number |-> FALSE, string |-> TRUE,  date |-> FALSE],
     [name |-> "NCHAR",       number |-> FALSE, string |-> TRUE,  date |-> FALSE],
     [name |-> "TEXT",        number |-> FALSE, string |-> TRUE,  date |-> FALSE],
     [name |-> "DATE",        number |-> FALSE, string |-> FALSE, date |-> TRUE],
     [name |-> "TIMESTAMP",   number |-> FALSE, string |-> FALSE, date |-> TRUE],
     [name |-> "CLOB",        number |-> FALSE, string |-> FALSE, date |-> FALSE],
     [name |-> "",            number |-> FALSE, string |-> FALSE, date |-> FALSE],
     [name |-> "NUMBER_TEXT", number |-> TRUE,  string |-> TRUE,  date |-> FALSE],
     [name |-> "TEXT_DATE",   number |-> FALSE, string |-> TRUE,  date |-> TRUE]}

\* a precision or scale as the column text gives it: absent, or the decimal
\* numeral of n
Absent == 0 - 1
Precisions == {Absent, 100} \cup (0..MaxPrecision)
Scales == {Absent} \cup (0..MaxScale)
numeral(n) == IF n = Absent THEN "" ELSE natToString(n)
valueOf(n) == IF n = Absent THEN 0 ELSE n

withThreshold(t) ==
    [getDefaultConfig EXCEPT !.typeMapping.NUMBER.largeThreshold = t]

Thresholds == {0, 4, 9, 11}

TypeConfigs ==
    {withThreshold(t) : t \in Thresholds}
        \cup {EmptyObject,
              [getDefaultConfig EXCEPT !.validation.generateAnnotations = FALSE]}

InitMapType ==
    /\ config \in TypeConfigs
    /\ pc = "call"
    /\ \E ty \in TypeNames, p \in Precisions, sc \in Scales :
          arg = [fn |-> "none", type |-> ty, p |-> p, s |-> sc]
    /\ ret = [java |-> "", annotation |-> ""]
    /\ Idle

CallMapOracleType ==
    /\ pc = "call"
    /\ arg.fn = "none"
    /\ ret' = mapOracleType(arg.type.name, numeral(arg.p), numeral(arg.s))
    /\ arg' = [arg EXCEPT !.fn = "mapOracleType"]
    /\ pc' = "done"
    /\ UNCHANGED config
    /\ UnchangedRun

NextMapType == CallMapOracleType

SpecMapType == InitMapType /\ [][NextMapType]_vars

-----------------------------------------------------------------------------
(* Claims about the type mapper, checked under SpecMapType *)

CalledMapType == pc = "done" /\ arg.fn = "mapOracleType"

countNines(text) == Cardinality({i \in 1..Len(text) : SubSeq(text, i, i) = "9"})

\* C5: for a NUMBER type with scale 0 or absent, for every precision and every
\* configured large threshold, the result is the large integer type exactly
\* when the precision is greater than the configured threshold and the
\* default integer type otherwise, and (annotations being generated) the
\* annotation holds the digit 9 exactly `precision` times.
C5_LargeIffAboveConfiguredThreshold ==
    (/\ CalledMapType
     /\ arg.type.number
     /\ valueOf(arg.s) = 0
     /\ Has(config, "typeMapping")
     /\ config.validation.generateAnnotations) =>
        LET number == config.typeMapping.NUMBER
        IN  /\ ret.java = IF valueOf(arg.p) > number.largeThreshold
                          THEN number.large ELSE number.default
            /\ countNines(ret.annotation) = valueOf(arg.p)

-----------------------------------------------------------------------------
(* Inputs of the parser: a DDL text is a table declaration, column lines,  *)
(* an optional table-level key line and the closing line. Each line        *)
(* carries, set down by hand, what it declares.                            *)

Headers ==
    {[text |-> "CREATE TABLE app.TB_CLIENTE (", kind |-> "qualified",
      schema |-> "app", table |-> "TB_CLIENTE"],
     [text |-> "create table Fin.Conta_Corrente (", kind |-> "qualified",
      schema |-> "Fin", table |-> "Conta_Corrente"],
     [text |-> "CREATE TABLE TB_CLIENTE\n(", kind |-> "simple",
      schema |-> "", table |-> "TB_CLIENTE"],
     [text |-> "Create Table pedido (", kind |-> "simple",
      schema |-> "", table |-> "pedido"],
     [text |-> "TABLE CLIENTE (", kind |-> "none",
      schema |-> "", table |-> ""]}

\* p and s are the precision and scale written in the line (Absent when not)
ColumnLines ==
    {[text |-> "    NR_CLIENTE NUMBER(10),", name |-> "NR_CLIENTE",
      type |-> "NUMBER", p |-> 10, s |-> Absent, inlineKey |-> FALSE],
     [text |-> "    NM_CLIENTE VARCHAR2(100),", name |-> "NM_CLIENTE",
      type |-> "VARCHAR2", p |-> 100, s |-> Absent, inlineKey |-> FALSE],
     [text |-> "    VL_LIMITE_CREDITO NUMBER(15,2),", name |-> "VL_LIMITE_CREDITO",
      type |-> "NUMBER", p |-> 15, s |-> 2, inlineKey |-> FALSE],
     [text |-> "    VL_SALDO NUMBER(12, 2),", name |-> "VL_SALDO",
      type |-> "NUMBER", p |-> 12, s |-> 2, inlineKey |-> FALSE],
     [text |-> "\tvl_taxa\tnumber(2,5)\r", name |-> "vl_taxa",
      type |-> "number", p |-> 2, s |-> 5, inlineKey |-> FALSE],
     [text |-> "    KEY_VALOR NUMBER(8,3),", name |-> "KEY_VALOR",
      type |-> "NUMBER", p |-> 8, s |-> 3, inlineKey |-> FALSE],
     [text |-> "    DT_CADASTRO DATE,", name |-> "DT_CADASTRO",
      type |-> "DATE", p |-> Absent, s |-> Absent, inlineKey |-> FALSE],
     [text |-> "    CD_STATUS NUMBER(3) PRIMARY KEY,", name |-> "CD_STATUS",
      type |-> "NUMBER", p |-> 3, s |-> Absent, inlineKey |-> TRUE]}

\* keys: the identifiers the first table-level clause of the line lists
KeyLines ==
    {[text |-> "", kind |-> "none", keys |-> {}],
     [text |-> "    CONSTRAINT PK_CLIENTE PRIMARY KEY (NR_CLIENTE)",
      kind |-> "constraint", keys |-> {"NR_CLIENTE"}],
     [text |-> "    CONSTRAINT PK_CLIENTE PRIMARY KEY (NR_CLIENTE, NM_CLIENTE)",
      kind |-> "constraint", keys |-> {"NR_CLIENTE", "NM_CLIENTE"}],
     [text |-> "    PRIMARY KEY (CD_STATUS ,DT_CADASTRO)",
      kind |-> "bare", keys |-> {"CD_STATUS", "DT_CADASTRO"}],
     [text |-> "    constraint pk primary key (\n        VL_SALDO,\n        KEY_VALOR\n    )",
      kind |-> "constraint", keys |-> {"VL_SALDO", "KEY_VALOR"}],
     [text |-> "    CONSTRAINT PK_CLIENTE PRIMARY KEY (NR_CLIENTE),\n    CONSTRAINT PK_NOME PRIMARY KEY (NM_CLIENTE)",
      kind |-> "constraint", keys |-> {"NR_CLIENTE"}],
     [text |-> "    CONSTRAINT PK_CLIENTE PRIMARY KEY (nr_cliente, Dt_Cadastro)",
      kind |-> "constraint", keys |-> {"nr_cliente", "Dt_Cadastro"}]}

\* sequences of distinct column lines (a table declares a column once)
ColumnSeqs ==
    UNION {{cols \in [1..n -> ColumnLines] :
                \A i, j \in 1..n : i # j => cols[i] # cols[j]} : n \in 0..MaxCols}

linesOf(header, cols, key) ==
    <<header.text>> \o [i \in 1..Len(cols) |-> cols[i].text]
        \o (IF key.kind = "none" THEN <<>> ELSE <<key.text>>) \o <<");">>

InitParse ==
    /\ config = getDefaultConfig
    /\ pc = "call"
    /\ \E header \in Headers, cols \in ColumnSeqs, key \in KeyLines :
          arg = [fn |-> "none", header |-> header, cols |-> cols, key |-> key,
                 ddl |-> join(linesOf(header, cols, key), "\n")]
    /\ ret = EmptyObject
    /\ Idle

CallParseDDL ==
    /\ pc = "call"
    /\ arg.fn = "none"
    /\ ret' = parseDDL(arg.ddl)
    /\ arg' = [arg EXCEPT !.fn = "parseDDL"]
    /\ pc' = "parsed"
    /\ UNCHANGED config
    /\ UnchangedRun

CallGenerateEntity ==
    /\ pc = "parsed"
    /\ ret' = [data |-> ret, code |-> generateEntity(ret)]
    /\ arg' = [arg EXCEPT !.fn = "generateEntity"]
    /\ pc' = "done"
    /\ UNCHANGED config
    /\ UnchangedRun

CallGenerateDTO ==
    /\ pc = "parsed"
    /\ ret' = [data |-> ret, code |-> generateDTO(ret)]
    /\ arg' = [arg EXCEPT !.fn = "generateDTO"]
    /\ pc' = "done"
    /\ UNCHANGED config
    /\ UnchangedRun

NextParse == CallParseDDL \/ CallGenerateEntity \/ CallGenerateDTO

SpecParse == InitParse /\ [][NextParse]_vars

-----------------------------------------------------------------------------
(* Claims about the parser and the entity template, checked under SpecParse *)

Parsed == pc \in {"parsed", "done"}
parsedData == IF pc = "parsed" THEN ret ELSE ret.data
EntityRendered == pc = "done" /\ arg.fn = "generateEntity"

\* C1: a text with CREATE TABLE s.t gives schema s and table identifier t as
\* written; a text with only CREATE TABLE t gives table identifier t and the
\* schema "dbo"; a text with neither gives "Unknown" and "dbo".
C1_TableAndSchemaAsWritten ==
    Parsed =>
        /\ arg.header.kind = "qualified" =>
                /\ parsedData.schema = arg.header.schema
                /\ parsedData.originalTableName = arg.header.table
        /\ arg.header.kind = "simple" =>
                /\ parsedData.schema = "dbo"
                /\ parsedData.originalTableName = arg.header.table
        /\ arg.header.kind = "none" =>
                /\ parsedData.schema = "dbo"
                /\ parsedData.originalTableName = "Unknown"

C1_Witness ==
    /\ pc = "parsed"
    /\ arg.header.text = "create table Fin.Conta_Corrente ("
    /\ ret.schema = "Fin"
    /\ ret.originalTableName = "Conta_Corrente"

declaresDecimal(line) ==
    /\ toUpperCase(line.type) = "NUMBER"
    /\ line.p # Absent
    /\ line.s # Absent
    /\ line.s > 0

\* C6: every column line declaring NUMBER(p, s) with s > 0 gives a Column of
\* the decimal type whose annotation carries integer = p - s and fraction = s.
C6_DecimalColumnForEveryNumberWithScale ==
    Parsed =>
        \A i \in 1..Len(arg.cols) :
            declaresDecimal(arg.cols[i]) =>
                \E k \in 1..Len(parsedData.columns) :
                    /\ parsedData.columns[k].originalName = arg.cols[i].name
                    /\ parsedData.columns[k].javaType = "BigDecimal"
                    /\ parsedData.columns[k].annotation =
                            "@Digits(integer = " \o numToString(arg.cols[i].p - arg.cols[i].s)
                                \o ", fraction = " \o numToString(arg.cols[i].s) \o ")"

C13_ColumnsAreTheColumnLines ==
    Parsed =>
        /\ Len(parsedData.columns) = Len(arg.cols)
        /\ \A k \in 1..Len(parsedData.columns) :
                k <= Len(arg.cols) => parsedData.columns[k].originalName = arg.cols[k].name

-----------------------------------------------------------------------------
(* Inputs of the parser for the naming of columns: tables whose columns    *)
(* are named with and without an underscore after the prefix, and with     *)
(* first segments of two and of three letters                              *)

ColumnNames ==
    {"NR_CLIENTE", "NRCLIENTE", "CD_STATUS", "COD_STATUS", "TIP_STATUS", "Cod_Status",
     "COD", "DT_CADASTRO"}

ColumnDecls ==
    {[text |-> "NUMBER(10)", type |-> "NUMBER", p |-> 10, s |-> Absent],
     [text |-> "VARCHAR2(100)", type |-> "VARCHAR2", p |-> 100, s |-> Absent]}

columnLine(name, decl) ==
    [text |-> "    " \o name \o " " \o decl.text \o ",", name |-> name,
     type |-> decl.type, p |-> decl.p, s |-> decl.s, inlineKey |-> FALSE]

\* sequences of columns of distinct names
NamedColumnSeqs ==
    UNION {{cols \in [1..n -> {columnLine(name, decl) : name \in ColumnNames, decl \in ColumnDecls}] :
                \A i, j \in 1..n : i # j => cols[i].name # cols[j].name} : n \in 1..MaxCols}

InitColumns ==
    /\ config = getDefaultConfig
    /\ pc = "call"
    /\ \E cols \in NamedColumnSeqs :
          LET header == [text |-> "CREATE TABLE app.TB_CLIENTE (", kind |-> "qualified",
                         schema |-> "app", table |-> "TB_CLIENTE"]
              key == [text |-> "", kind |-> "none", keys |-> {}]
          IN  arg = [fn |-> "none", header |-> header, cols |-> cols, key |-> key,
                     ddl |-> join(linesOf(header, cols, key), "\n")]
    /\ ret = EmptyObject
    /\ Idle

SpecColumns == InitColumns /\ [][NextParse]_vars

sameButForCase(a, b) == toLowerCase(a) = toLowerCase(b)

\* C15: under the default configuration every Column has a non-empty field
\* name, and two Columns whose original names differ by more than letter case
\* have different field names and different accessor interface names.
C15_FieldNamesNonEmptyAndDistinct ==
    Parsed =>
        /\ \A k \in 1..Len(parsedData.columns) : parsedData.columns[k].javaName # ""
        /\ \A k, l \in 1..Len(parsedData.columns) :
                ~sameButForCase(parsedData.columns[k].originalName,
                                parsedData.columns[l].originalName) =>
                    /\ parsedData.columns[k].javaName # parsedData.columns[l].javaName
                    /\ parsedData.columns[k].pascalName # parsedData.columns[l].pascalName

-----------------------------------------------------------------------------
(* The run: what config.json and the input file hold *)

customConfig ==
    [getDefaultConfig EXCEPT
        !.output = [directory |-> "src/main/kotlin",
                    fileExtensions |-> [entity |-> ".kt", dto |-> "Dto.kt"],
                    indentation |-> "  "]]

ConfigFiles ==
    {[exists |-> FALSE],
     [exists |-> TRUE, json |-> FALSE],
     [exists |-> TRUE, json |-> TRUE, value |-> getDefaultConfig],
     [exists |-> TRUE, json |-> TRUE, value |-> customConfig],
     [exists |-> TRUE, json |-> TRUE, value |-> EmptyObject],
     [exists |-> TRUE, json |-> TRUE, value |-> JsPrimitive],
     [exists |-> TRUE, json |-> TRUE, value |-> JsNull]}

InputTexts ==
    {"CREATE TABLE TB_CLIENTE\n(\n    NR_CLIENTE NUMBER(10),\n    NM_CLIENTE VARCHAR2(100),\n    CONSTRAINT PK_CLIENTE PRIMARY KEY (NR_CLIENTE)\n);",
     "CREATE TABLE app.PEDIDO (\n    DT_PEDIDO DATE\n);"}

Init ==
    /\ config = EmptyObject
    /\ pc = "start"
    /\ arg = [fn |-> "none"]
    /\ ret = EmptyObject
    /\ configFile \in ConfigFiles
    /\ answers = EmptyObject
    /\ \E text \in InputTexts, readable \in BOOLEAN, writable \in BOOLEAN :
          fsys = [inputContent |-> text, inputReadable |-> readable,
                  outputWritable |-> writable, dirs |-> {}, files |-> {}]
    /\ results = <<>>
    /\ clipboard = [outcome |-> "none", text |-> ""]
    /\ stdout = <<>>
    /\ console = <<>>
    /\ exitCode = "running"

Next ==
    \/ LoadConfig
    \/ Prompt
    \/ ReadInput
    \/ Parse
    \/ Generate
    \/ SaveFiles
    \/ CopyToClipboard
    \/ PrintResults
    \/ Exit

Spec == Init /\ [][Next]_vars

-----------------------------------------------------------------------------
(* Claims about the run, checked under Spec *)

RunEnded == pc = "done"

\* nothing but the configuration can have gone wrong in this run
nothingElseFailed ==
    /\ fsys.inputReadable
    /\ answers.saveFiles => fsys.outputWritable
    /\ clipboard.outcome # "rejected"

\* C9: whatever config.json holds (absent, not JSON, or JSON that is not the
\* expected mapping), loading it is never fatal: the run does not end in the
\* error state with exit status 1 because of it, and an absent or unparsable
\* file leaves the built-in defaults in force.
C9_ConfigurationNeverFatal ==
    (RunEnded /\ answers # EmptyObject /\ nothingElseFailed) =>
        /\ exitCode = 0
        /\ (~configFile.exists \/ ~configFile.json) => config = getDefaultConfig

configuredSuffix(type) ==
    IF type = "Entity" THEN config.output.fileExtensions.entity
    ELSE config.output.fileExtensions.dto

FilesSaved == pc = "copy" /\ answers.saveFiles

\* C10: when files are saved, every artifact is written inside the configured
\* output directory under the name <TypeName> followed by the configured
\* suffix of its kind (entity or DTO), whatever the two suffixes are.
C10_FilesNamedByConfiguredSuffixes ==
    (FilesSaved /\ Has(config, "output") /\ Has(config.output, "fileExtensions")) =>
        \A i \in 1..Len(results) :
            \E f \in fsys.files :
                /\ f.path = config.output.directory \o "/" \o ret.className
                                \o configuredSuffix(results[i].type)
                /\ f.content = results[i].code

clipboardFailed == clipboard.outcome \in {"threw", "rejected"}

warned == \E i \in 1..Len(console) : console[i].level = "warn"
                                        /\ console[i].about \in {"clipboard", "unhandled rejection"}

\* C11: a failure of the clipboard write, thrown at the call or reported later
\* by the promise, is recovered locally: the run ends with a warning and exit
\* status 0, and every file selected for saving is written and stays written.
C11_ClipboardFailureRecovered ==
    (RunEnded /\ clipboardFailed) =>
        /\ warned
        /\ exitCode = 0
        /\ answers.saveFiles => savedFiles(results) \subseteq fsys.files

\* the input was read and parseDDL returned a model
parsedSuccessfully == ret # EmptyObject

delivered(result) ==
    \/ \E f \in fsys.files : f.content = result.code
    \/ clipboard.outcome = "written" /\ includes(clipboard.text, result.code)
    \/ \E j \in 1..Len(stdout) : stdout[j] = result.code

\* C14: in every run that read and parsed its input (the output directory
\* being writable), whatever the user chose and whatever the clipboard did,
\* when the run has ended at least one artifact was generated and every
\* generated artifact has reached a file, the clipboard or standard output.
C14_EveryArtifactDelivered ==
    (RunEnded /\ parsedSuccessfully /\ fsys.outputWritable) =>
        /\ Len(results) > 0
        /\ \A i \in 1..Len(results) : delivered(results[i])

=============================================================================
